---------------------------- MODULE Spec2Model ----------------------------
(***************************************************************************)
(* Model of src/app.py: the Markdown -> Word translator md_to_docx, its    *)
(* inline formatter _inline_formats and the table lookahead                *)
(* _is_valid_table_structure.                                              *)
(*                                                                         *)
(* A text is a sequence of characters, each a one-character string (the    *)
(* backtick is written BQ).  Python indexes from 0,                        *)
(* the model from 1: the model's cursor i is Python's i + 1, and the       *)
(* model's pos is Python's pos + 1.                                        *)
(***************************************************************************)
EXTENDS Integers, Sequences, FiniteSets, TLC

VARIABLES
    lines,          \* md.splitlines()
    i,              \* the driver's cursor
    in_code_block,  \* inside a fence
    code_content,   \* the pending fence lines
    doc,            \* the document: the blocks appended so far
    pc,             \* "loop", "done" (saved), "error" (an exception), "idle"
    trace,          \* history: which rule consumed which lines
    text,           \* _inline_formats: the payload
    pos,            \* _inline_formats: the scan position
    runs,           \* _inline_formats: the runs added to the paragraph
    sel,            \* _inline_formats: the match chosen by the last iteration
    ipc             \* "scan", "done", "idle"

vars == <<lines, i, in_code_block, code_content, doc, pc, trace,
          text, pos, runs, sel, ipc>>

(***************************************************************************)
(* Bounds of the model.                                                    *)
(***************************************************************************)
MaxTableLines == 4
MaxBlockLines == 3

(***************************************************************************)
(* Characters and text helpers (Python's str methods).                     *)
(***************************************************************************)
\* The backtick character, which a TLA+ string cannot hold.
BQ == "BQ"
Whitespace == {" ", "\t"}
Digits == {"0", "1", "2", "3", "4", "5", "6", "7", "8", "9"}

Min(S) == CHOOSE x \in S : \A y \in S : x <= y

\* re.IGNORECASE on the letters of the <strong> tag.
Fold(c) ==
    CASE c = "S" -> "s" [] c = "T" -> "t" [] c = "R" -> "r"
      [] c = "O" -> "o" [] c = "N" -> "n" [] c = "G" -> "g"
      [] OTHER -> c

\* The literal lit stands in t at index s (fold: ignoring case).
Lit(t, s, lit, fold) ==
    /\ s >= 1
    /\ s + Len(lit) - 1 <= Len(t)
    /\ \A k \in 1..Len(lit) :
          IF fold THEN Fold(t[s + k - 1]) = Fold(lit[k]) ELSE t[s + k - 1] = lit[k]

\* str.strip(chars)
StripChars(t, chars) ==
    LET keep == {k \in 1..Len(t) : t[k] \notin chars}
    IN  IF keep = {} THEN <<>>
        ELSE SubSeq(t, Min(keep), CHOOSE x \in keep : \A y \in keep : y <= x)

\* str.split(sep) for a one-character separator: empty fields are kept.
RECURSIVE Split(_, _)
Split(t, sep) ==
    LET at == {k \in 1..Len(t) : t[k] = sep}
    IN  IF at = {} THEN <<t>>
        ELSE <<SubSeq(t, 1, Min(at) - 1)>> \o Split(SubSeq(t, Min(at) + 1, Len(t)), sep)

RECURSIVE Concat(_)
Concat(ss) == IF ss = <<>> THEN <<>> ELSE Head(ss) \o Concat(Tail(ss))

(***************************************************************************)
(* Regex matches.  A match is [start, stop, g1, g2] (stop: the index of    *)
(* its last character); NoMatch has start 0.                               *)
(***************************************************************************)
NoMatch == [start |-> 0, stop |-> 0, g1 |-> <<>>, g2 |-> <<>>]

\* open (.+?) close, anchored at s: the lazy group takes the fewest
\* characters (at least one) that let close match.
LazyAt(t, s, open, close, fold) ==
    LET ends == {e \in (s + Len(open) + 1)..(Len(t) - Len(close) + 1) :
                    Lit(t, e, close, fold)}
    IN  IF Lit(t, s, open, fold) /\ ends # {}
        THEN [start |-> s, stop |-> Min(ends) + Len(close) - 1,
              g1 |-> SubSeq(t, s + Len(open), Min(ends) - 1), g2 |-> <<>>]
        ELSE NoMatch

\* pattern.search(text, pos) over the matches anchored at each start at or
\* after pos: the leftmost one.
Leftmost(ms) ==
    LET found == {m \in ms : m.start # 0}
    IN  IF found = {} THEN NoMatch
        ELSE CHOOSE m \in found : \A o \in found : m.start <= o.start

\* _bold: two stars, a lazy group, two stars
BoldAt(t, s) == LazyAt(t, s, <<"*", "*">>, <<"*", "*">>, FALSE)
\* _italic: a star, a lazy group, a star
ItalicAt(t, s) == LazyAt(t, s, <<"*">>, <<"*">>, FALSE)
\* _inline_code: a backtick, a lazy group, a backtick
InlineCodeAt(t, s) == LazyAt(t, s, <<BQ>>, <<BQ>>, FALSE)
\* _link: a bracketed display text and a parenthesised target.  The display
\* text (one or more characters, none a closing bracket) runs to the first
\* closing bracket, which an opening parenthesis must follow; the target (one
\* or more characters, none a closing parenthesis) runs to the first closing
\* parenthesis.
LinkAt(t, s) ==
    LET rb == {j \in (s + 1)..Len(t) : t[j] = "]"}
        j  == Min(rb)
        rp == {k \in (j + 2)..Len(t) : t[k] = ")"}
        k  == Min(rp)
    IN  IF /\ Lit(t, s, <<"[">>, FALSE)
           /\ rb # {} /\ j >= s + 2
           /\ Lit(t, j + 1, <<"(">>, FALSE)
           /\ rp # {} /\ k >= j + 3
        THEN [start |-> s, stop |-> k, g1 |-> SubSeq(t, s + 1, j - 1),
              g2 |-> SubSeq(t, j + 2, k - 1)]
        ELSE NoMatch
\* _html_strong: the strong tag pair around a lazy group, re.IGNORECASE
HtmlStrongAt(t, s) ==
    LazyAt(t, s, <<"<", "s", "t", "r", "o", "n", "g", ">">>,
           <<"<", "/", "s", "t", "r", "o", "n", "g", ">">>, TRUE)

SearchBold(t, p) == Leftmost({BoldAt(t, s) : s \in p..Len(t)})
SearchItalic(t, p) == Leftmost({ItalicAt(t, s) : s \in p..Len(t)})
SearchInlineCode(t, p) == Leftmost({InlineCodeAt(t, s) : s \in p..Len(t)})
SearchLink(t, p) == Leftmost({LinkAt(t, s) : s \in p..Len(t)})
SearchHtmlStrong(t, p) == Leftmost({HtmlStrongAt(t, s) : s \in p..Len(t)})

(***************************************************************************)
(* _inline_formats.  A run is what par.add_run made: its text, its style   *)
(* flags, the hyperlink target bound to it, and the format_type of the     *)
(* branch that added it ("plain" for the text between matches).            *)
(***************************************************************************)
Run(t, fmt, url) ==
    [text |-> t, bold |-> (fmt = "bold"), italic |-> (fmt = "italic"),
     link |-> (fmt = "link"), url |-> url, fmt |-> fmt]

\* The list `matches` in the order the patterns are tried, the patterns
\* without a match left out.
Matches(t, p) ==
    SelectSeq(<<[m |-> SearchBold(t, p), fmt |-> "bold"],
                [m |-> SearchItalic(t, p), fmt |-> "italic"],
                [m |-> SearchInlineCode(t, p), fmt |-> "code"],
                [m |-> SearchLink(t, p), fmt |-> "link"]>>,
              LAMBDA c : c.m.start # 0)

\* Mutant: among the matches with the least start the last in the list.
Earliest_TiesLast(ms) ==
    ms[CHOOSE k \in 1..Len(ms) :
          \A j \in 1..Len(ms) :
             \/ ms[k].m.start < ms[j].m.start
             \/ ms[k].m.start = ms[j].m.start /\ k >= j]

\* matches.sort(key=start); matches[0]: list.sort is stable, so of the
\* matches with the least start the first in the list is taken.
Earliest(ms) ==
    ms[CHOOSE k \in 1..Len(ms) :
          \A j \in 1..Len(ms) :
             \/ ms[k].m.start < ms[j].m.start
             \/ ms[k].m.start = ms[j].m.start /\ k <= j]

\* The runs one iteration adds for the chosen match c from position p.
SpanRuns(t, p, c) ==
    (IF c.m.start > p THEN <<Run(SubSeq(t, p, c.m.start - 1), "plain", <<>>)>>
     ELSE <<>>)
    \o <<Run(c.m.g1, c.fmt, IF c.fmt = "link" THEN c.m.g2 ELSE <<>>)>>

\* Mutant: the scan resumes on the last character of the match.
AfterMatch_OffByOne(c) == c.m.stop

\* The scan position after the chosen match: pos = match.end()
AfterMatch(c) == c.m.stop + 1

\* One iteration of the while loop at position p <= Len(t).
InlineIter(t, p) ==
    LET ms == Matches(t, p)
    IN  IF ms = <<>>
        THEN [runs |-> <<Run(SubSeq(t, p, Len(t)), "plain", <<>>)>>,
              pos |-> p, brk |-> TRUE, sel |-> [m |-> NoMatch, fmt |-> "none"]]
        ELSE [runs |-> SpanRuns(t, p, Earliest(ms)),
              pos |-> AfterMatch(Earliest(ms)), brk |-> FALSE, sel |-> Earliest(ms)]

\* The whole of _inline_formats(par, text): the runs added to par.
RECURSIVE InlineFrom(_, _)
InlineFrom(t, p) ==
    IF p > Len(t) THEN <<>>
    ELSE LET it == InlineIter(t, p)
         IN  it.runs \o (IF it.brk THEN <<>> ELSE InlineFrom(t, it.pos))

InlineFormats(t) == InlineFrom(t, 1)

(***************************************************************************)
(* The line patterns of md_to_docx, each anchored at the start of the      *)
(* line.  A group written (.+) needs at least one character.               *)
(***************************************************************************)
\* marker (.+) with the marker a literal
Prefixed(line, marker) ==
    IF Lit(line, 1, marker, FALSE) /\ Len(line) >= Len(marker) + 1
    THEN [start |-> 1, stop |-> Len(line), g1 |-> SubSeq(line, Len(marker) + 1, Len(line)),
          g2 |-> <<>>]
    ELSE NoMatch

\* Mutant: _hdr3 without the space after the marks.
Hdr3_NoSpace(line) == Prefixed(line, <<"#", "#", "#">>)

\* _hdr1, _hdr2, _hdr3
Hdr1(line) == Prefixed(line, <<"#", " ">>)
Hdr2(line) == Prefixed(line, <<"#", "#", " ">>)
Hdr3(line) == Prefixed(line, <<"#", "#", "#", " ">>)

\* [-*] (.+) after `indent` leading characters
BulletAfter(line, indent) ==
    IF /\ Len(line) >= indent + 3
       /\ line[indent + 1] \in {"-", "*"}
       /\ line[indent + 2] = " "
    THEN [start |-> 1, stop |-> Len(line), g1 |-> SubSeq(line, indent + 3, Len(line)),
          g2 |-> <<>>]
    ELSE NoMatch

\* (\d+)\. (.+) after `indent` leading characters: the digits run as far as
\* they go, and a period and a space must follow them.
NumberedAfter(line, indent) ==
    LET stops == {k \in (indent + 1)..(Len(line) + 1) :
                     k > Len(line) \/ line[k] \notin Digits}
        k == Min(stops)
    IN  IF /\ k >= indent + 2
           /\ Len(line) >= k + 2
           /\ line[k] = "."
           /\ line[k + 1] = " "
        THEN [start |-> 1, stop |-> Len(line), g1 |-> SubSeq(line, indent + 1, k - 1),
              g2 |-> SubSeq(line, k + 2, Len(line))]
        ELSE NoMatch

\* _bullet, _numbered, _nested_bullet, _nested_numbered
Bullet(line) == BulletAfter(line, 0)
Numbered(line) == NumberedAfter(line, 0)
NestedBullet(line) ==
    IF Lit(line, 1, <<" ", " ">>, FALSE) THEN BulletAfter(line, 2) ELSE NoMatch
NestedNumbered(line) ==
    IF Lit(line, 1, <<" ", " ">>, FALSE) THEN NumberedAfter(line, 2) ELSE NoMatch

\* _table_row: a pipe, one or more characters, a pipe at the end of the line
IsTableRow(line) ==
    /\ Len(line) >= 3
    /\ line[1] = "|"
    /\ line[Len(line)] = "|"

\* Mutant: a divider must start with a pipe.
IsTableDivider_PipeFirst(line) ==
    /\ Len(line) >= 1
    /\ line[1] = "|"
    /\ \A k \in 1..Len(line) : line[k] \in ({"|", ":", "-"} \cup Whitespace)

\* _table_divider: one or more characters, each a pipe, whitespace, a colon
\* or a dash
IsTableDivider(line) ==
    /\ Len(line) >= 1
    /\ \A k \in 1..Len(line) : line[k] \in ({"|", ":", "-"} \cup Whitespace)

\* _code_block: the line starts with three backticks
IsCodeBlock(line) == Lit(line, 1, <<BQ, BQ, BQ>>, FALSE)

\* _html_strong.sub: each strong tag pair rewritten to the bold markup
RECURSIVE HtmlStrongSubFrom(_, _)
HtmlStrongSubFrom(t, p) ==
    LET m == SearchHtmlStrong(t, p)
    IN  IF m.start = 0 THEN SubSeq(t, p, Len(t))
        ELSE SubSeq(t, p, m.start - 1) \o <<"*", "*">> \o m.g1 \o <<"*", "*">>
             \o HtmlStrongSubFrom(t, m.stop + 1)

HtmlStrongSub(t) == HtmlStrongSubFrom(t, 1)

(***************************************************************************)
(* _is_valid_table_structure and the table branch of md_to_docx.           *)
(***************************************************************************)
\* Mutant: the data row after the divider is not looked for.
IsValidTableStructure_NoDataRow(ls, idx) ==
    /\ idx <= Len(ls)
    /\ IsTableRow(ls[idx])
    /\ idx + 1 <= Len(ls)
    /\ IsTableDivider(ls[idx + 1])

IsValidTableStructure(ls, idx) ==
    /\ idx <= Len(ls)
    /\ IsTableRow(ls[idx])
    /\ idx + 1 <= Len(ls)
    /\ IsTableDivider(ls[idx + 1])
    /\ idx + 2 <= Len(ls)
    /\ IsTableRow(ls[idx + 2])

\* [c.strip() for c in line.strip("|").split("|")]
SplitCells(line) ==
    LET cells == Split(StripChars(line, {"|"}), "|")
    IN  [c \in 1..Len(cells) |-> StripChars(cells[c], Whitespace)]

\* Mutant: no data row is collected.
RowsEnd_None(ls, j) == j

\* The cursor after the data rows collected from index j on.
RECURSIVE RowsEnd(_, _)
RowsEnd(ls, j) ==
    IF j <= Len(ls) /\ IsTableRow(ls[j]) THEN RowsEnd(ls, j + 1) ELSE j

\* Mutant: the row is padded but not cut.
NormalizeRow_NoTruncate(row, n) ==
    [c \in 1..(IF Len(row) > n THEN Len(row) ELSE n) |->
       IF c <= Len(row) THEN row[c] ELSE <<>>]

\* Pad row_data with "" up to n cells, then row_data[:n].
NormalizeRow(row, n) ==
    [c \in 1..n |-> IF c <= Len(row) THEN row[c] ELSE <<>>]

\* rows: the data rows from line `from` up to, not including, line `to`
DataRows(ls, from, to, n) ==
    [k \in 1..(to - from) |-> NormalizeRow(SplitCells(ls[from + k - 1]), n)]

\* A cell of a new table: one empty paragraph, no border.
EmptyCell == [runs |-> <<>>, border |-> FALSE]
\* cell.text = txt; every run bold; _set_cell_border(cell)
HeaderCell(txt) == [runs |-> <<[Run(txt, "plain", <<>>) EXCEPT !.bold = TRUE]>>,
                    border |-> TRUE]
\* cell.text = txt; _set_cell_border(cell)
DataCell(txt) == [runs |-> <<Run(txt, "plain", <<>>)>>, border |-> TRUE]

\* doc.add_table(rows=len(rows)+1, cols=len(header)) and the two loops that
\* fill it.  ok is FALSE when a loop indexes a cell the table does not have
\* (an IndexError).
BuildTable(header, rows) ==
    [ok |-> \A r \in 1..Len(rows) : Len(rows[r]) <= Len(header),
     block |->
        [type |-> "table", cols |-> Len(header),
         cells |->
            [r \in 1..(Len(rows) + 1) |->
               [c \in 1..Len(header) |->
                  IF r = 1 THEN HeaderCell(header[c])
                  ELSE IF c <= Len(rows[r - 1]) THEN DataCell(rows[r - 1][c])
                  ELSE EmptyCell]]]]

(***************************************************************************)
(* The blocks md_to_docx appends.                                          *)
(***************************************************************************)
Heading(level, t) == [type |-> "heading", level |-> level, text |-> t]
Paragraph(style, rs) == [type |-> "paragraph", style |-> style, runs |-> rs]

\* The paragraph a fence is flushed as: one run per line, each ended by "\n".
CodeParagraph(content) ==
    Paragraph("Normal",
              [k \in 1..Len(content) |-> Run(content[k] \o <<"\n">>, "plain", <<>>)])

\* The if/elif chain over one line that is neither fence nor table: the rule
\* that takes the line and the blocks it appends (none for a blank line).
LineBlock(line) ==
    IF Hdr1(line).start # 0
    THEN [rule |-> "hdr1", blocks |-> <<Heading(1, Hdr1(line).g1)>>]
    ELSE IF Hdr2(line).start # 0
    THEN [rule |-> "hdr2", blocks |-> <<Heading(2, Hdr2(line).g1)>>]
    ELSE IF Hdr3(line).start # 0
    THEN [rule |-> "hdr3", blocks |-> <<Heading(3, Hdr3(line).g1)>>]
    ELSE IF NestedBullet(line).start # 0
    THEN [rule |-> "nested_bullet",
          blocks |-> <<Paragraph("List Bullet 2", InlineFormats(NestedBullet(line).g1))>>]
    ELSE IF NestedNumbered(line).start # 0
    THEN [rule |-> "nested_numbered",
          blocks |-> <<Paragraph("List Number 2", InlineFormats(NestedNumbered(line).g2))>>]
    ELSE IF Bullet(line).start # 0
    THEN [rule |-> "bullet",
          blocks |-> <<Paragraph("List Bullet", InlineFormats(Bullet(line).g1))>>]
    ELSE IF Numbered(line).start # 0
    THEN [rule |-> "numbered",
          blocks |-> <<Paragraph("List Number", InlineFormats(Numbered(line).g2))>>]
    ELSE IF StripChars(HtmlStrongSub(line), Whitespace) # <<>>
    THEN [rule |-> "paragraph",
          blocks |-> <<Paragraph("Normal", InlineFormats(HtmlStrongSub(line)))>>]
    ELSE [rule |-> "blank", blocks |-> <<>>]

(***************************************************************************)
(* Inputs.  The driver is run on every sequence of up to MaxTableLines     *)
(* lines of TableLines and on every sequence of up to MaxBlockLines lines  *)
(* of BlockLines; the formatter on every text made of up to MaxPieces      *)
(* pieces of Pieces.                                                       *)
(***************************************************************************)
Fence == <<BQ, BQ, BQ>>
FenceInfo == <<BQ, BQ, BQ, "x">>
RowAB == <<"|", "a", "|", "b", "|">>
RowABC == <<"|", "a", "|", " ", "b", "|", "c", "|">>
RowStar == <<"|", "*", "c", "*", "|">>
RowLink == <<"|", "[", "a", "]", "(", "|", ")", "|">>
DivPlain == <<"-", "-", "-", "|", "-", "-", "-">>
DivRow == <<"|", "-", "|">>
BareAB == <<"a", "|", "b">>
Blank == <<>>

TableLines == {RowAB, RowABC, RowStar, DivPlain, DivRow, BareAB, Fence}

BlockLines ==
    {Fence, FenceInfo, Blank, RowLink,
     <<"#", " ", "T">>, <<"#", "#", " ", "*", "T", "*">>, <<"#", "#", "#", " ", "T">>,
     <<"#", "#", "#", "#", " ", "T">>, <<"#", " ">>,
     <<"-", " ", "x">>, <<" ", " ", "*", " ", "*", "x", "*">>,
     <<"1", "2", ".", " ", "x">>, <<" ", " ", "1", ".", " ", BQ, "x", BQ>>,
     <<"a", " ", "*", "b", "*">>,
     <<"<", "S", "T", "R", "O", "N", "G", ">", "a", "<", "/", "s", "t", "r", "o", "n", "g", ">">>}

Pieces ==
    {<<"*">>, <<"*", "*">>, <<BQ>>, <<"[">>, <<"]">>, <<"(">>, <<")">>, <<"a">>,
     <<"[", "a", "]", "(", "u", ")">>}

RECURSIVE SeqsUpTo(_, _)
SeqsUpTo(S, n) ==
    IF n = 0 THEN {<<>>}
    ELSE SeqsUpTo(S, n - 1) \cup {Append(q, x) : q \in SeqsUpTo(S, n - 1), x \in S}

RECURSIVE TextsUpTo(_)
TextsUpTo(n) ==
    IF n = 0 THEN {<<>>}
    ELSE TextsUpTo(n - 1) \cup {t \o p : t \in TextsUpTo(n - 1), p \in Pieces}

NoSel == [m |-> NoMatch, fmt |-> "none", from |-> 0]

(***************************************************************************)
(* md_to_docx: one action per turn of the while loop, by the branch taken. *)
(***************************************************************************)
inlineVars == <<text, pos, runs, sel, ipc>>
driverVars == <<lines, i, in_code_block, code_content, doc, pc, trace>>

Init ==
    /\ lines \in SeqsUpTo(TableLines, MaxTableLines) \cup SeqsUpTo(BlockLines, MaxBlockLines)
    /\ i = 1
    /\ in_code_block = FALSE
    /\ code_content = <<>>
    /\ doc = <<>>
    /\ pc = "loop"
    /\ trace = <<>>
    /\ text = <<>> /\ pos = 1 /\ runs = <<>> /\ sel = NoSel /\ ipc = "idle"

AtLine == pc = "loop" /\ i <= Len(lines)

\* The branch a turn of the loop takes, in the order the code tests them.
TakesFenceMarker == AtLine /\ IsCodeBlock(lines[i])
TakesFenceContent == AtLine /\ ~IsCodeBlock(lines[i]) /\ in_code_block
TakesTable ==
    /\ AtLine
    /\ ~IsCodeBlock(lines[i])
    /\ ~in_code_block
    /\ IsTableRow(lines[i]) /\ IsValidTableStructure(lines, i)
TakesLine ==
    /\ AtLine
    /\ ~IsCodeBlock(lines[i])
    /\ ~in_code_block
    /\ ~(IsTableRow(lines[i]) /\ IsValidTableStructure(lines, i))
AtEnd == pc = "loop" /\ i > Len(lines)

\* What a turn that consumed lines i..last by `rule` adds to the history;
\* blk is the index in doc of the block it appended, 0 for none.
Consumed(rule, last, blk) == [rule |-> rule, first |-> i, last |-> last, blk |-> blk]

\* A line that starts with the fence marker: toggle the fence, and on
\* closing flush the pending lines as one paragraph.
FenceMarker ==
    /\ TakesFenceMarker
    /\ IF in_code_block
       THEN /\ doc' = IF code_content # <<>>
                      THEN Append(doc, CodeParagraph(code_content)) ELSE doc
            /\ code_content' = <<>>
            /\ in_code_block' = FALSE
            /\ trace' = Append(trace, Consumed("fence_close", i,
                                  IF code_content # <<>> THEN Len(doc) + 1 ELSE 0))
       ELSE /\ in_code_block' = TRUE
            /\ trace' = Append(trace, Consumed("fence_open", i, 0))
            /\ UNCHANGED <<doc, code_content>>
    /\ i' = i + 1
    /\ UNCHANGED <<lines, pc, inlineVars>>

\* A line inside the fence.
FenceContent ==
    /\ TakesFenceContent
    /\ code_content' = Append(code_content, lines[i])
    /\ i' = i + 1
    /\ trace' = Append(trace, Consumed("fence_content", i, 0))
    /\ UNCHANGED <<lines, in_code_block, doc, pc, inlineVars>>

\* A header row, its divider and its data rows.
Table ==
    /\ TakesTable
    /\ LET header == SplitCells(lines[i])
           stop == RowsEnd(lines, i + 2)
           built == BuildTable(header, DataRows(lines, i + 2, stop, Len(header)))
       IN  /\ i' = stop
           /\ doc' = Append(doc, built.block)
           /\ pc' = IF built.ok THEN pc ELSE "error"
           /\ trace' = Append(trace, Consumed("table", stop - 1, Len(doc) + 1))
    /\ UNCHANGED <<lines, in_code_block, code_content, inlineVars>>

\* Any other line: heading, list item, paragraph or blank.
Line ==
    /\ TakesLine
    /\ LET b == LineBlock(lines[i])
       IN  /\ doc' = doc \o b.blocks
           /\ trace' = Append(trace, Consumed(b.rule, i,
                                 IF b.blocks # <<>> THEN Len(doc) + 1 ELSE 0))
    /\ i' = i + 1
    /\ UNCHANGED <<lines, in_code_block, code_content, pc, inlineVars>>

\* Mutant: the pending fence lines are not flushed at the end of the input.
Finish_NoFlush ==
    /\ AtEnd
    /\ pc' = "done"
    /\ UNCHANGED <<lines, i, in_code_block, code_content, doc, trace, inlineVars>>

\* The end of the input: flush an unterminated fence, then doc.save(path).
Finish ==
    /\ AtEnd
    /\ IF in_code_block /\ code_content # <<>>
       THEN /\ doc' = Append(doc, CodeParagraph(code_content))
            /\ trace' = Append(trace, Consumed("eof_flush", i - 1, Len(doc) + 1))
       ELSE UNCHANGED <<doc, trace>>
    /\ pc' = "done"
    /\ UNCHANGED <<lines, i, in_code_block, code_content, inlineVars>>

Next == FenceMarker \/ FenceContent \/ Table \/ Line \/ Finish

Spec == Init /\ [][Next]_vars

(***************************************************************************)
(* _inline_formats on its own: one action per turn of its while loop.      *)
(***************************************************************************)
MaxPieces == 4

InlineInit ==
    /\ text \in TextsUpTo(MaxPieces)
    /\ pos = 1
    /\ runs = <<>>
    /\ sel = NoSel
    /\ ipc = "scan"
    /\ lines = <<>> /\ i = 1 /\ in_code_block = FALSE /\ code_content = <<>>
    /\ doc = <<>> /\ pc = "idle" /\ trace = <<>>

\* A turn of the loop: the earliest match and the text before it, or the
\* rest of the text when nothing matches.
InlineScan ==
    /\ ipc = "scan"
    /\ pos <= Len(text)
    /\ LET it == InlineIter(text, pos)
       IN  /\ runs' = runs \o it.runs
           /\ pos' = it.pos
           /\ sel' = [m |-> it.sel.m, fmt |-> it.sel.fmt, from |-> pos]
           /\ ipc' = IF it.brk THEN "done" ELSE "scan"
    /\ UNCHANGED <<text, driverVars>>

\* The loop condition fails: the function returns.
InlineReturn ==
    /\ ipc = "scan"
    /\ pos > Len(text)
    /\ ipc' = "done"
    /\ UNCHANGED <<text, pos, runs, sel, driverVars>>

InlineNext == InlineScan \/ InlineReturn

InlineSpec == InlineInit /\ [][InlineNext]_vars

(***************************************************************************)
(* Vocabulary of the properties.                                           *)
(***************************************************************************)
FenceRules == {"fence_open", "fence_close", "fence_content", "eof_flush"}
Entries == 1..Len(trace)

\* The text of a sequence of runs, and of a cell.
RunText(rs) == Concat([k \in 1..Len(rs) |-> rs[k].text])
\* The number of pipes a sequence of runs carries, in its text and targets.
Pipes(t) == Cardinality({k \in 1..Len(t) : t[k] = "|"})
RunPipes(rs) == Pipes(Concat([k \in 1..Len(rs) |-> rs[k].text \o rs[k].url]))

\* Line j lies inside a fence: an odd number of marker lines precede it and
\* it is no marker line itself.
MarkersBefore(j) == {m \in 1..(j - 1) : m <= Len(lines) /\ IsCodeBlock(lines[m])}
InFence(j) ==
    /\ j <= Len(lines)
    /\ ~IsCodeBlock(lines[j])
    /\ Cardinality(MarkersBefore(j)) % 2 = 1
\* The lines between the last marker before j and j.
Segment(j) ==
    LET open == CHOOSE m \in MarkersBefore(j) : \A o \in MarkersBefore(j) : o <= m
    IN  [k \in 1..(j - open - 1) |-> lines[open + k]]

\* Line j is followed by a divider line and then by a row-shaped line.
Lookahead(j) ==
    /\ j + 2 <= Len(lines)
    /\ IsTableDivider(lines[j + 1])
    /\ IsTableRow(lines[j + 2])

\* The number of "#" the line starts with.
HashCount(l) == Min({k \in 0..Len(l) : k = Len(l) \/ l[k + 1] # "#"})

(***************************************************************************)
(* C1: the header row and every data row of every generated table have     *)
(* exactly len(header) cells; a data row holds its own cells in order,     *)
(* cut to the header's count or filled up with empty cells; no error is    *)
(* raised.                                                                 *)
(***************************************************************************)
C1_ColumnCount ==
    /\ pc # "error"
    /\ \A k \in Entries :
          trace[k].rule = "table" =>
             LET e == trace[k]
                 t == doc[e.blk]
                 n == Len(SplitCells(lines[e.first]))
             IN  /\ t.type = "table"
                 /\ t.cols = n
                 /\ Len(t.cells) = e.last - e.first
                 /\ \A r \in 1..Len(t.cells) : Len(t.cells[r]) = n
                 /\ \A r \in 2..Len(t.cells) : \A c \in 1..n :
                       RunText(t.cells[r][c].runs) =
                          IF c <= Len(SplitCells(lines[e.first + r]))
                          THEN SplitCells(lines[e.first + r])[c] ELSE <<>>

\* A finished document with a table one of whose data rows had more cells
\* than the header and another fewer.
C1_Witness ==
    /\ pc = "done"
    /\ \E k \in Entries :
          /\ trace[k].rule = "table"
          /\ \E r \in (trace[k].first + 2)..trace[k].last :
                Len(SplitCells(lines[r])) > doc[trace[k].blk].cols
          /\ \E r \in (trace[k].first + 2)..trace[k].last :
                Len(SplitCells(lines[r])) < doc[trace[k].blk].cols

(***************************************************************************)
(* C2: outside a fence a row-shaped line starts a table exactly when a     *)
(* divider line and then a row-shaped line follow it; otherwise it raises  *)
(* no error and becomes a plain paragraph that keeps all its pipes.        *)
(***************************************************************************)
C2_TableLookahead ==
    /\ pc # "error"
    /\ \A k \in Entries :
          LET e == trace[k]
          IN  /\ e.rule = "table" => IsTableRow(lines[e.first]) /\ Lookahead(e.first)
              /\ (e.rule \notin FenceRules /\ e.rule # "table" /\ IsTableRow(lines[e.first])) =>
                    /\ ~Lookahead(e.first)
                    /\ e.rule = "paragraph"
                    /\ e.blk # 0
                    /\ doc[e.blk].type = "paragraph"
                    /\ doc[e.blk].style = "Normal"
                    /\ RunPipes(doc[e.blk].runs) = Pipes(lines[e.first])

\* A row-shaped line followed by a divider but by no data row, rendered as a
\* paragraph, in a run that also built a table.
C2_Witness ==
    /\ pc = "done"
    /\ \E k \in Entries :
          /\ trace[k].rule = "paragraph"
          /\ IsTableRow(lines[trace[k].first])
          /\ trace[k].first + 1 <= Len(lines)
          /\ IsTableDivider(lines[trace[k].first + 1])

(***************************************************************************)
(* C3: a line toggles fence mode if and only if it consists solely of the  *)
(* three-backtick marker; a line that starts with the marker and carries   *)
(* more characters does not toggle the fence and is emitted.               *)
(***************************************************************************)
C3_OnlyBareMarkerToggles ==
    \A k \in Entries :
       (trace[k].rule \in {"fence_open", "fence_close"}) <=>
          (trace[k].rule # "eof_flush" /\ lines[trace[k].first] = Fence)

(***************************************************************************)
(* C4: every line read inside a fence is kept verbatim, no other rule      *)
(* applies to it, and it is emitted exactly once and in input order: in    *)
(* the one paragraph flushed when the fence closes, or in the paragraph    *)
(* flushed at the end of the input, without any error.                     *)
(***************************************************************************)
C4_FenceLines ==
    /\ pc # "error"
    /\ \A k \in Entries :
          LET e == trace[k]
          IN  /\ e.rule \in {"fence_close", "eof_flush"} =>
                    IF Segment(e.first) = <<>> THEN e.blk = 0
                    ELSE /\ e.blk # 0
                         /\ doc[e.blk].type = "paragraph"
                         /\ doc[e.blk].runs =
                               [j \in 1..Len(Segment(e.first)) |->
                                  Run(Segment(e.first)[j] \o <<"\n">>, "plain", <<>>)]
              /\ e.rule = "fence_content" => InFence(e.first)
              /\ e.rule \notin FenceRules =>
                    \A j \in e.first..e.last : ~InFence(j)
    /\ \A j \in 1..(i - 1) :
          InFence(j) => \E k \in Entries : trace[k].rule = "fence_content" /\ trace[k].first = j
    /\ (pc = "done" /\ Len(lines) > 0 /\ InFence(Len(lines))) =>
          trace[Len(trace)].rule = "eof_flush"
    /\ Cardinality({k \in Entries : trace[k].rule \in {"fence_close", "eof_flush"}
                                       /\ trace[k].blk # 0})
          = Cardinality({j \in 1..Len(doc) :
                           /\ doc[j].type = "paragraph"
                           /\ \E r \in 1..Len(doc[j].runs) :
                                 LET t == doc[j].runs[r].text
                                 IN  t # <<>> /\ t[Len(t)] = "\n"})

\* A closed fence holding two row-shaped lines, flushed as one paragraph.
C4_Witness ==
    /\ pc = "done"
    /\ \E k \in Entries :
          /\ trace[k].rule = "fence_close"
          /\ trace[k].blk # 0
          /\ Len(doc[trace[k].blk].runs) = 2
          /\ IsTableRow(lines[trace[k].first - 1])

(***************************************************************************)
(* C5: the span a turn of the formatter emits is the match that starts     *)
(* earliest at or after the scan position; of the matches that start at    *)
(* the same index the first in the order bold, italic, code, link wins, so *)
(* bold wins over an italic match with the same start.                     *)
(***************************************************************************)
PatternAt(fmt, t, s) ==
    CASE fmt = "bold" -> BoldAt(t, s)
      [] fmt = "italic" -> ItalicAt(t, s)
      [] fmt = "code" -> InlineCodeAt(t, s)
      [] fmt = "link" -> LinkAt(t, s)

PatternOrder == <<"bold", "italic", "code", "link">>
Rank(fmt) == CHOOSE k \in 1..4 : PatternOrder[k] = fmt

C5_EarliestMatch ==
    sel.from # 0 =>
       IF sel.fmt = "none"
       THEN \A s \in sel.from..Len(text) : \A k \in 1..4 :
               PatternAt(PatternOrder[k], text, s).start = 0
       ELSE /\ sel.m.start >= sel.from
            /\ sel.m = PatternAt(sel.fmt, text, sel.m.start)
            /\ \A s \in sel.from..(sel.m.start - 1) : \A k \in 1..4 :
                  PatternAt(PatternOrder[k], text, s).start = 0
            /\ \A k \in 1..(Rank(sel.fmt) - 1) :
                  PatternAt(PatternOrder[k], text, sel.m.start).start = 0
            /\ runs # <<>>
            /\ runs[Len(runs)].fmt = sel.fmt
            /\ runs[Len(runs)].text = sel.m.g1

\* A turn that chose a bold match where an italic match starts at the same
\* index.
C5_Witness ==
    /\ sel.fmt = "bold"
    /\ ItalicAt(text, sel.m.start).start # 0
    /\ runs[Len(runs)].bold

(***************************************************************************)
(* C6: putting the delimiters of each styled or link run back around its   *)
(* content and concatenating the runs in emission order gives the payload  *)
(* back: every character that is no delimiter is emitted exactly once, in  *)
(* order.  A link's target is carried by its run.                          *)
(***************************************************************************)
WithDelimiters(r) ==
    CASE r.fmt = "bold" -> <<"*", "*">> \o r.text \o <<"*", "*">>
      [] r.fmt = "italic" -> <<"*">> \o r.text \o <<"*">>
      [] r.fmt = "code" -> <<BQ>> \o r.text \o <<BQ>>
      [] r.fmt = "link" -> <<"[">> \o r.text \o <<"]", "(">> \o r.url \o <<")">>
      [] OTHER -> r.text

Reassembled(rs) == Concat([k \in 1..Len(rs) |-> WithDelimiters(rs[k])])

C6_RoundTrip ==
    /\ ipc = "scan" => Reassembled(runs) = SubSeq(text, 1, pos - 1)
    /\ ipc = "done" => Reassembled(runs) = text

\* A finished payload that gave a link run, a bold run and plain text.
C6_Witness ==
    /\ ipc = "done"
    /\ \E k \in 1..Len(runs) : runs[k].link
    /\ \E k \in 1..Len(runs) : runs[k].bold
    /\ \E k \in 1..Len(runs) : runs[k].fmt = "plain"

(***************************************************************************)
(* C7: every payload other than a heading's or a fence's goes through the  *)
(* inline formatter, table cells included: no table cell shows inline      *)
(* markup as literal text.                                                 *)
(***************************************************************************)
C7_CellsFormatted ==
    \A b \in 1..Len(doc) :
       doc[b].type = "table" =>
          \A r \in 1..Len(doc[b].cells) : \A c \in 1..doc[b].cols :
             \A k \in 1..Len(doc[b].cells[r][c].runs) :
                Matches(doc[b].cells[r][c].runs[k].text, 1) = <<>>

(***************************************************************************)
(* C8 as stated: outside a fence and a table every line that begins with   *)
(* one to three "#" and a space is a heading of that level whose text is   *)
(* the rest of the line, and no other line is a heading.                   *)
(***************************************************************************)
\* The line is a heading line of the level n: n marks, a space, and at
\* least `least` more characters.
HeadingLine(l, least) ==
    /\ HashCount(l) \in 1..3
    /\ Len(l) >= HashCount(l) + 1 + least
    /\ l[HashCount(l) + 1] = " "

HeadingsWhere(least) ==
    /\ \A k \in Entries :
          LET e == trace[k]
          IN  (e.rule \notin FenceRules /\ e.rule # "table") =>
                 IF HeadingLine(lines[e.first], least)
                 THEN /\ e.blk # 0
                      /\ doc[e.blk] =
                            Heading(HashCount(lines[e.first]),
                                    SubSeq(lines[e.first], HashCount(lines[e.first]) + 2,
                                           Len(lines[e.first])))
                 ELSE e.blk # 0 => doc[e.blk].type # "heading"
    /\ \A b \in 1..Len(doc) :
          doc[b].type = "heading" =>
             \E k \in Entries : trace[k].blk = b /\ trace[k].rule \in {"hdr1", "hdr2", "hdr3"}

C8_Original == HeadingsWhere(0)

(***************************************************************************)
(* C8 amended: the line is a heading when at least one character follows   *)
(* the marks and the space; a line of only marks and a space is not.       *)
(***************************************************************************)
C8_Headings == HeadingsWhere(1)

\* A level-2 heading that carries its inline markup as raw text.
C8_Witness ==
    /\ pc = "done"
    /\ \E b \in 1..Len(doc) : doc[b] = Heading(2, <<"*", "T", "*">>)

(***************************************************************************)
(* C9 as stated: the header row a|b, the divider ---|--- and two data rows *)
(* give one table of 2 columns and 3 rows, header bold, all cells          *)
(* bordered.                                                               *)
(***************************************************************************)
ScenarioTable ==
    /\ Len(doc) = 1
    /\ doc[1].type = "table"
    /\ doc[1].cols = 2
    /\ Len(doc[1].cells) = 3
    /\ \A r \in 1..3 : Len(doc[1].cells[r]) = 2
    /\ \A c \in 1..2 :
          /\ doc[1].cells[1][c].runs # <<>>
          /\ \A k \in 1..Len(doc[1].cells[1][c].runs) : doc[1].cells[1][c].runs[k].bold
    /\ RunText(doc[1].cells[1][1].runs) = <<"a">>
    /\ RunText(doc[1].cells[1][2].runs) = <<"b">>
    /\ \A r \in 1..3 : \A c \in 1..2 : doc[1].cells[r][c].border

C9_Original ==
    (/\ pc = "done"
     /\ Len(lines) = 4
     /\ lines[1] = BareAB
     /\ lines[2] = DivPlain
     /\ \A r \in 3..4 : lines[r] = BareAB \/ IsTableRow(lines[r]))
       => ScenarioTable

(***************************************************************************)
(* C9 amended: the header row |a|b|, with its leading and trailing pipe,   *)
(* the divider ---|--- and two row-shaped data rows give that table.       *)
(***************************************************************************)
PipedScenario ==
    /\ Len(lines) = 4
    /\ lines[1] = RowAB
    /\ lines[2] = DivPlain
    /\ \A r \in 3..4 : IsTableRow(lines[r])

C9_PipedScenario == (pc = "done" /\ PipedScenario) => ScenarioTable

C9_Witness == pc = "done" /\ PipedScenario /\ Len(doc) = 1

(***************************************************************************)
(* C10: the driver terminates and consumes each line exactly once: every   *)
(* turn moves the cursor forward, by one line or, for a table, by at least *)
(* three; the turns take consecutive line ranges; the blocks are appended  *)
(* in input order.                                                         *)
(***************************************************************************)
\* The history covers lines 1..i-1 by consecutive ranges, and the blocks it
\* names are the document's, in order.
ConsumedOnce ==
    LET turns == {k \in Entries : trace[k].rule # "eof_flush"}
        made == {k \in Entries : trace[k].blk # 0}
    IN  /\ \A k \in turns :
              /\ trace[k].first = IF k = 1 THEN 1 ELSE trace[k - 1].last + 1
              /\ trace[k].last >= trace[k].first
              /\ trace[k].rule = "table" => trace[k].last >= trace[k].first + 2
              /\ trace[k].rule # "table" => trace[k].last = trace[k].first
        /\ i = IF turns = {} THEN 1 ELSE trace[Cardinality(turns)].last + 1
        /\ i <= Len(lines) + 1
        /\ Cardinality(made) = Len(doc)
        /\ \A k \in made : trace[k].blk = Cardinality({j \in made : j <= k})

\* Some branch of the loop, or the end of the input, takes the state.
CanStep == TakesFenceMarker \/ TakesFenceContent \/ TakesTable \/ TakesLine \/ AtEnd

Advances ==
    /\ i' >= i
    /\ (pc = "loop" /\ i <= Len(lines)) => i' > i
    /\ TakesTable => i' >= i + 3
    /\ (AtLine /\ ~TakesTable) => i' = i + 1
    /\ AtEnd => pc' = "done" /\ i' = i
    /\ Len(doc') >= Len(doc) /\ SubSeq(doc', 1, Len(doc)) = doc

C10_TerminatesConsumingOnce ==
    /\ [](ConsumedOnce /\ pc # "error" /\ (pc = "done" \/ CanStep))
    /\ [][Advances]_vars

\* A finished run over four lines that held a table and a paragraph.
C10_Witness ==
    /\ pc = "done"
    /\ Len(lines) = 4
    /\ Len(doc) >= 2
    /\ \E k \in Entries : trace[k].rule = "table"

=============================================================================
